---- MODULE Spec2Model ----
(***************************************************************************)
(* Model of the log-extraction pipeline of dao-data-extractor.             *)
(*                                                                         *)
(*   Spec        one AlchemyClient.get_logs call, with the tenacity @retry *)
(*               decorator that wraps the whole method, the log provider   *)
(*               and the batch callback as nondeterministic environment.   *)
(*   SpecLimiter the two rate limiters (AlchemyClient._throttle and the    *)
(*               Etherscan rate_limit wrapper) driven by a single caller   *)
(*               against a wall clock.                                     *)
(*   SpecAbi     EtherscanClient.get_contract_abi calls: the rate_limit    *)
(*               wrapper around the tenacity @retry around the request.    *)
(*   SpecContract  the construction of a Contract from an address.         *)
(*   SpecStore   FileManager.save_contract_data calls on one               *)
(*               (dao, contract, data_type) key, with failing file I/O.    *)
(*   SpecRun     main: BlockchainExtractor over the configured DAOs, with  *)
(*               the calls above as its steps; SpecRunFair adds that the  *)
(*               program keeps running.                                    *)
(*                                                                         *)
(* Times are in milliseconds, blocks are block numbers.                    *)
(***************************************************************************)
EXTENDS Integers, Sequences, FiniteSets, TLC

VARIABLES
    contract_valid,     \* Web3.to_checksum_address accepts contract_address
    from_block,         \* argument from_block of get_logs
    to_block,           \* argument to_block of get_logs, 0 = None (omitted)
    batch_size,         \* argument batch_size of get_logs, 0 = None
    has_callback,       \* argument on_batch_complete is given
    head,               \* chain head, w3.eth.block_number
    mined,              \* blocks mined since the call started
    pc,                 \* position of the call
    attempt_number,     \* tenacity's attempt number of the running attempt
    scan_from,          \* local from_block after the floor substitution
    scan_to,            \* local to_block after resolution
    current_block,      \* local current_block
    end_block,          \* local end_block
    now,                \* time.time()
    last_request_time,  \* AlchemyClient.last_request_time
    last_call,          \* closure variable last_call of rate_limit
    acquired,           \* number of acquisitions of each limiter
    trace,              \* what the call did, in order
    abi_pc,             \* position of the get_contract_abi call
    abi_attempt,        \* tenacity's attempt number in get_contract_abi
    abi_trace,          \* the provider's answers to the call's requests
    abi_result,         \* what get_contract_abi gave its caller
    address,            \* argument address of Contract, a string of characters
    stored_address,     \* Contract.address after __post_init__
    ctor,               \* outcome of the construction of the Contract
    dirs,               \* contract directories that exist under base_dir
    store,              \* the JSON and CSV file of each (contract, data_type)
    last_write,         \* the last save_contract_data call and its outcome
    save_seq,           \* flips at every save_contract_data call
    csv_hist,           \* the records whose rows were written to the CSV file,
                        \* and whether every save of the key worked so far
    run_pc,             \* position of main / BlockchainExtractor
    config,             \* number of contracts of each configured DAO
    dao_idx,            \* index of the DAO being processed
    contract_idx,       \* index of the contract being processed in its DAO
    run_log             \* what the run did, in order

abiVars == << abi_pc, abi_attempt, abi_trace, abi_result >>
ctrVars == << address, stored_address, ctor >>
storeVars == << dirs, store, last_write, save_seq, csv_hist >>
runVars == << run_pc, config, dao_idx, contract_idx, run_log >>

\* the state of the components other than get_logs and the limiters
extVars == << abiVars, ctrVars, storeVars, runVars >>

vars == << contract_valid, from_block, to_block, batch_size, has_callback,
           head, mined, pc, attempt_number, scan_from, scan_to,
           current_block, end_block, now, last_request_time, last_call,
           acquired, trace, extVars >>

argVars == << contract_valid, from_block, to_block, batch_size, has_callback >>
scanVars == << scan_from, scan_to, current_block, end_block >>
chainVars == << head, mined >>

----------------------------------------------------------------------------
(* Bounds of the model *)

MaxSpan == 5            \* to_block - from_block is at most this at call start
MaxBatch == 2           \* batch_size argument ranges over 0..MaxBatch
MaxHeadAdvance == 1     \* blocks mined during one call
MaxOversleep == 1       \* ms by which time.sleep may return late
MaxTime == 450          \* the limiter clock is driven up to this time

(* Program constants *)

FloorBlock == 12450964
DefaultBatchSize == 1000
MaxAttempts == 3
MinRequestInterval == 100
EtherscanMinInterval == 200
WaitMultiplier == 1
WaitMin == 4
WaitMax == 10

----------------------------------------------------------------------------
(* Helpers *)

Min2(a, b) == IF a < b THEN a ELSE b
Max2(a, b) == IF a > b THEN a ELSE b

RECURSIVE Pow2(_)
Pow2(n) == IF n <= 0 THEN 1 ELSE 2 * Pow2(n - 1)

Event(k, lo, hi, r) ==
    [kind |-> k, att |-> attempt_number, lo |-> lo, hi |-> hi, res |-> r]

\* tenacity wait_exponential(multiplier=1, min=4, max=10), in ms
WaitExponential(n) ==
    1000 * Max2(WaitMin, Min2(WaitMultiplier * Pow2(n - 1), WaitMax))

\* batch_size = batch_size or self.batch_size
EffectiveBatch(b) == IF b = 0 THEN DefaultBatchSize ELSE b

\* if from_block == 0: from_block = 12450964
EffectiveFrom_verbatim(fb) == fb
EffectiveFrom(fb) == IF fb = 0 THEN FloorBlock ELSE fb

\* the times at which a limiter with interval min, last acquired at last,
\* lets a caller arriving at t through
WakeTimes_nosleep(t, last, min) == { t }
WakeTimes(t, last, min) ==
    IF t - last < min
    THEN { t + (min - (t - last)) + j : j \in 0..MaxOversleep }
    ELSE { t }

\* stop=stop_after_attempt(3)
StopAfterAttempt(n) == n >= MaxAttempts

\* tenacity after a failed attempt: retry after a wait, or raise RetryError
RetryOrRaise ==
    pc' = IF StopAfterAttempt(attempt_number) THEN "raised" ELSE "backoff"

----------------------------------------------------------------------------
(* AlchemyClient.get_logs *)

\* self._throttle()
Throttle(w) ==
    /\ now' = w
    /\ last_request_time' = w
    /\ acquired' = [acquired EXCEPT !.alchemy = @ + 1]

\* lines 72-76, 36-40, 132-134: the address is rejected, the attempt fails
GetLogsInvalidAddress ==
    /\ pc = "start"
    /\ ~contract_valid
    /\ \E w \in WakeTimes(now, last_request_time, MinRequestInterval) :
          Throttle(w)
    /\ trace' = Append(trace, Event("throttle", 0, 0, "-"))
    /\ RetryOrRaise
    /\ UNCHANGED << extVars, argVars, chainVars, attempt_number, scanVars, last_call >>

\* lines 72-92: throttle, resolve the range, enter the loop
GetLogsStart ==
    /\ pc = "start"
    /\ contract_valid
    /\ \E w \in WakeTimes(now, last_request_time, MinRequestInterval) :
          Throttle(w)
    /\ scan_to' = IF to_block = 0 THEN head ELSE to_block
    /\ scan_from' = EffectiveFrom(from_block)
    /\ current_block' = scan_from'
    /\ trace' = IF to_block = 0
                THEN trace \o << Event("throttle", 0, 0, "-"),
                                 Event("head", head, head, "-") >>
                ELSE Append(trace, Event("throttle", 0, 0, "-"))
    /\ pc' = "loop"
    /\ UNCHANGED << extVars, argVars, chainVars, attempt_number, end_block, last_call >>

NextEnd == Min2(current_block + EffectiveBatch(batch_size), scan_to)

\* lines 94-107, 121-125, 132-134: the request fails, the attempt fails
FetchFail_skip ==
    /\ pc = "loop"
    /\ current_block < scan_to
    /\ end_block' = NextEnd
    /\ trace' = Append(trace, Event("request", current_block, NextEnd, "fail"))
    /\ current_block' = NextEnd + 1
    /\ UNCHANGED << extVars, argVars, chainVars, pc, attempt_number, scan_from, scan_to,
                    now, last_request_time, last_call, acquired >>
FetchFail ==
    /\ pc = "loop"
    /\ current_block < scan_to
    /\ end_block' = NextEnd
    /\ trace' = Append(trace, Event("request", current_block, NextEnd, "fail"))
    /\ RetryOrRaise
    /\ UNCHANGED << extVars, argVars, chainVars, attempt_number, scan_from, scan_to,
                    current_block, now, last_request_time, last_call, acquired >>

\* lines 94-109, 127: the provider returns no log for the sub-range
FetchEmpty ==
    /\ pc = "loop"
    /\ current_block < scan_to
    /\ end_block' = NextEnd
    /\ trace' = Append(trace, Event("request", current_block, NextEnd, "empty"))
    /\ current_block' = NextEnd + 1
    /\ UNCHANGED << extVars, argVars, chainVars, pc, attempt_number, scan_from, scan_to,
                    now, last_request_time, last_call, acquired >>

\* lines 94-113, 116-119, 127: the provider returns logs for the sub-range
FetchLogs_nocallback ==
    /\ pc = "loop"
    /\ current_block < scan_to
    /\ end_block' = NextEnd
    /\ trace' = Append(trace, Event("request", current_block, NextEnd, "logs"))
    /\ pc' = "loop"
    /\ current_block' = NextEnd + 1
    /\ UNCHANGED << extVars, argVars, chainVars, attempt_number, scan_from, scan_to,
                    now, last_request_time, last_call, acquired >>
FetchLogs ==
    /\ pc = "loop"
    /\ current_block < scan_to
    /\ end_block' = NextEnd
    /\ trace' = Append(trace, Event("request", current_block, NextEnd, "logs"))
    /\ IF has_callback
       THEN pc' = "deliver" /\ current_block' = current_block
       ELSE pc' = "loop" /\ current_block' = NextEnd + 1
    /\ UNCHANGED << extVars, argVars, chainVars, attempt_number, scan_from, scan_to,
                    now, last_request_time, last_call, acquired >>

\* lines 113-119, 127: on_batch_complete(formatted_logs) returns
DeliverOk ==
    /\ pc = "deliver"
    /\ trace' = Append(trace, Event("deliver", current_block, end_block, "ok"))
    /\ current_block' = end_block + 1
    /\ pc' = "loop"
    /\ UNCHANGED << extVars, argVars, chainVars, attempt_number, scan_from, scan_to,
                    end_block, now, last_request_time, last_call, acquired >>

\* lines 113-114, 121-125, 132-134: on_batch_complete raises
DeliverRaise ==
    /\ pc = "deliver"
    /\ trace' = Append(trace, Event("deliver", current_block, end_block, "raise"))
    /\ RetryOrRaise
    /\ UNCHANGED << extVars, argVars, chainVars, attempt_number, scanVars,
                    now, last_request_time, last_call, acquired >>

\* lines 94, 129-130: the loop condition is false, the call returns
LoopExit ==
    /\ pc = "loop"
    /\ ~(current_block < scan_to)
    /\ pc' = "returned"
    /\ UNCHANGED << extVars, argVars, chainVars, attempt_number, scanVars,
                    now, last_request_time, last_call, acquired, trace >>

\* lines 53-56: tenacity sleeps, then calls get_logs again with the
\* arguments of the original call
Backoff ==
    /\ pc = "backoff"
    /\ now' = now + WaitExponential(attempt_number)
    /\ trace' = Append(trace, Event("wait", 0, 0, "-"))
    /\ attempt_number' = attempt_number + 1
    /\ pc' = "start"
    /\ UNCHANGED << extVars, argVars, chainVars, scanVars,
                    last_request_time, last_call, acquired >>

\* the chain grows while the call waits
MineBlock ==
    /\ pc = "backoff"
    /\ mined < MaxHeadAdvance
    /\ head' = head + 1
    /\ mined' = mined + 1
    /\ UNCHANGED << extVars, argVars, pc, attempt_number, scanVars,
                    now, last_request_time, last_call, acquired, trace >>

----------------------------------------------------------------------------
(* The calls of the model *)

\* no get_contract_abi call is running
AbiIdle ==
    /\ abi_pc = "idle"
    /\ abi_attempt = 1
    /\ abi_trace = << >>
    /\ abi_result = "-"

\* no Contract is under construction
CtrIdle ==
    /\ address = << >>
    /\ stored_address = << >>
    /\ ctor = "idle"

NoWrite == [data |-> << >>, append |-> FALSE, json |-> "-", csv |-> "-",
            result |-> "-"]

\* FileManager.__init__: nothing is stored yet
StoreIdle ==
    /\ dirs = {}
    /\ store = << >>
    /\ last_write = NoWrite
    /\ save_seq = 0
    /\ csv_hist = [append_only |-> TRUE, recs |-> << >>, all_ok |-> TRUE]

\* main is not running
RunIdle ==
    /\ run_pc = "off"
    /\ config = << >>
    /\ dao_idx = 0
    /\ contract_idx = 0
    /\ run_log = << >>

ExtIdle == AbiIdle /\ CtrIdle /\ StoreIdle /\ RunIdle

FromBlocks == {0, 1}
RangeBases == {1, FloorBlock}
UpperBlocks == { b + d : b \in RangeBases, d \in (-1)..(MaxSpan + 1) }

Init ==
    /\ contract_valid \in BOOLEAN
    /\ has_callback \in BOOLEAN
    /\ batch_size \in 0..MaxBatch
    /\ from_block \in FromBlocks
    /\ head \in { h \in UpperBlocks : h >= 1 }
    /\ head - EffectiveFrom(from_block) <= MaxSpan
    /\ to_block \in {0, head}
    /\ mined = 0
    /\ pc = "start"
    /\ attempt_number = 1
    /\ scan_from = 0
    /\ scan_to = 0
    /\ current_block = 0
    /\ end_block = 0
    /\ now = 1000       \* the client was constructed a second ago
    /\ last_request_time = 0
    /\ last_call = 0
    /\ acquired = [alchemy |-> 0, etherscan |-> 0]
    /\ trace = << >>
    /\ ExtIdle

Next ==
    \/ GetLogsInvalidAddress
    \/ GetLogsStart
    \/ FetchFail
    \/ FetchEmpty
    \/ FetchLogs
    \/ DeliverOk
    \/ DeliverRaise
    \/ LoopExit
    \/ Backoff
    \/ MineBlock

Spec == Init /\ [][Next]_vars

----------------------------------------------------------------------------
(* The rate limiters *)

TickSteps == {30, 100, 200}

\* AlchemyClient._throttle, lines 26-32
AlchemyThrottle ==
    /\ pc = "idle"
    /\ now <= MaxTime
    /\ \E w \in WakeTimes(now, last_request_time, MinRequestInterval) :
          Throttle(w)
    /\ UNCHANGED << extVars, argVars, chainVars, pc, attempt_number, scanVars,
                    last_call, trace >>

\* rate_limit.wrapper, lines 17-23
EtherscanRateLimit ==
    /\ pc = "idle"
    /\ now <= MaxTime
    /\ \E w \in WakeTimes(now, last_call, EtherscanMinInterval) :
          /\ now' = w
          /\ last_call' = w
    /\ acquired' = [acquired EXCEPT !.etherscan = @ + 1]
    /\ UNCHANGED << extVars, argVars, chainVars, pc, attempt_number, scanVars,
                    last_request_time, trace >>

\* the caller does something else for a while
Tick ==
    /\ pc = "idle"
    /\ now <= MaxTime
    /\ \E d \in TickSteps : now' = now + d
    /\ UNCHANGED << extVars, argVars, chainVars, pc, attempt_number, scanVars,
                    last_request_time, last_call, acquired, trace >>

InitLimiter ==
    /\ contract_valid = TRUE
    /\ has_callback = FALSE
    /\ batch_size = 0
    /\ from_block = 0
    /\ to_block = 0
    /\ head = FloorBlock
    /\ mined = 0
    /\ pc = "idle"
    /\ attempt_number = 1
    /\ scan_from = 0
    /\ scan_to = 0
    /\ current_block = 0
    /\ end_block = 0
    /\ now \in {0, 50}
    /\ last_request_time = 0
    /\ last_call = 0
    /\ acquired = [alchemy |-> 0, etherscan |-> 0]
    /\ trace = << >>
    /\ ExtIdle

NextLimiter ==
    \/ AlchemyThrottle
    \/ EtherscanRateLimit
    \/ Tick

SpecLimiter == InitLimiter /\ [][NextLimiter]_vars

----------------------------------------------------------------------------
(* EtherscanClient.get_contract_abi *)

MaxAbiCalls == 2        \* get_contract_abi calls made by the caller

\* retry_error_callback=lambda retry_state: None
RetryErrorCallback_reraise == "RetryError"
RetryErrorCallback == "None"

\* an attempt raised: tenacity retries after a wait, or gives up and hands
\* the caller what retry_error_callback returns
AbiRetryOrGiveUp ==
    IF StopAfterAttempt(abi_attempt)
    THEN /\ abi_result' = RetryErrorCallback
         /\ abi_pc' = IF RetryErrorCallback = "None" THEN "done" ELSE "raised"
    ELSE /\ abi_result' = abi_result
         /\ abi_pc' = "backoff"

\* rate_limit.wrapper, lines 17-24: acquire the limiter, then call the
\* retrying get_contract_abi
AbiCall ==
    /\ pc = "idle"
    /\ abi_pc \in {"idle", "done"}
    /\ acquired.etherscan < MaxAbiCalls
    /\ \E w \in WakeTimes(now, last_call, EtherscanMinInterval) :
          /\ now' = w
          /\ last_call' = w
    /\ acquired' = [acquired EXCEPT !.etherscan = @ + 1]
    /\ abi_pc' = "request"
    /\ abi_attempt' = 1
    /\ abi_trace' = << >>
    /\ abi_result' = "-"
    /\ UNCHANGED << ctrVars, storeVars, runVars, argVars, chainVars, pc, attempt_number, scanVars,
                    last_request_time, trace >>

\* lines 67-81: status '1' and message 'OK', the ABI is returned
AbiVerified ==
    /\ abi_pc = "request"
    /\ abi_trace' = Append(abi_trace, "ok")
    /\ abi_result' = "abi"
    /\ abi_pc' = "done"
    /\ UNCHANGED << ctrVars, storeVars, runVars, argVars, chainVars, pc, attempt_number, scanVars, now,
                    last_request_time, last_call, acquired, trace, abi_attempt >>

\* lines 67-87: not OK and no rate-limit message, None is returned
AbiNotVerified_raise ==
    /\ abi_pc = "request"
    /\ abi_trace' = Append(abi_trace, "notverified")
    /\ AbiRetryOrGiveUp
    /\ UNCHANGED << ctrVars, storeVars, runVars, argVars, chainVars, pc, attempt_number, scanVars, now,
                    last_request_time, last_call, acquired, trace, abi_attempt >>
AbiNotVerified ==
    /\ abi_pc = "request"
    /\ abi_trace' = Append(abi_trace, "notverified")
    /\ abi_result' = "None"
    /\ abi_pc' = "done"
    /\ UNCHANGED << ctrVars, storeVars, runVars, argVars, chainVars, pc, attempt_number, scanVars, now,
                    last_request_time, last_call, acquired, trace, abi_attempt >>

\* lines 67-84: 'Max rate limit reached', EtherscanError is raised
AbiRateLimited ==
    /\ abi_pc = "request"
    /\ abi_trace' = Append(abi_trace, "ratelimit")
    /\ AbiRetryOrGiveUp
    /\ UNCHANGED << ctrVars, storeVars, runVars, argVars, chainVars, pc, attempt_number, scanVars, now,
                    last_request_time, last_call, acquired, trace, abi_attempt >>

\* lines 67-77, 89-91: the request or raise_for_status raises
\* RequestException, EtherscanError is raised
AbiTransportError ==
    /\ abi_pc = "request"
    /\ abi_trace' = Append(abi_trace, "transport")
    /\ AbiRetryOrGiveUp
    /\ UNCHANGED << ctrVars, storeVars, runVars, argVars, chainVars, pc, attempt_number, scanVars, now,
                    last_request_time, last_call, acquired, trace, abi_attempt >>

\* lines 78-83: the answer lacks 'status' or 'message', KeyError is raised
AbiBadAnswer ==
    /\ abi_pc = "request"
    /\ abi_trace' = Append(abi_trace, "badanswer")
    /\ AbiRetryOrGiveUp
    /\ UNCHANGED << ctrVars, storeVars, runVars, argVars, chainVars, pc, attempt_number, scanVars, now,
                    last_request_time, last_call, acquired, trace, abi_attempt >>

\* lines 55-59: tenacity sleeps, then calls get_contract_abi again
AbiBackoff ==
    /\ abi_pc = "backoff"
    /\ now' = now + WaitExponential(abi_attempt)
    /\ abi_attempt' = abi_attempt + 1
    /\ abi_pc' = "request"
    /\ UNCHANGED << ctrVars, storeVars, runVars, argVars, chainVars, pc, attempt_number, scanVars,
                    last_request_time, last_call, acquired, trace,
                    abi_trace, abi_result >>

\* the caller does something else between two calls
AbiTick ==
    /\ abi_pc \in {"idle", "done"}
    /\ Tick

InitAbi == InitLimiter

NextAbi ==
    \/ AbiCall
    \/ AbiVerified
    \/ AbiNotVerified
    \/ AbiRateLimited
    \/ AbiTransportError
    \/ AbiBadAnswer
    \/ AbiBackoff
    \/ AbiTick

SpecAbi == InitAbi /\ [][NextAbi]_vars

----------------------------------------------------------------------------
(* Contract.__post_init__ *)

MaxAddrLen == 3         \* characters of an address given to Contract

AddrChars == {"0", "x", "X", "a", "A", "g"}

\* str.lower on one character
LowerChar(c) == IF c = "X" THEN "x" ELSE IF c = "A" THEN "a" ELSE c

\* str.lower
Lower(a) == [i \in DOMAIN a |-> LowerChar(a[i])]

\* a.startswith('0x')
StartsWith0x(a) == Len(a) >= 2 /\ a[1] = "0" /\ a[2] = "x"

\* models/dao.py lines 12-15
ContractPostInit ==
    /\ ctor = "new"
    /\ stored_address' = Lower(address)
    /\ ctor' = IF StartsWith0x(Lower(address)) THEN "ok" ELSE "ValueError"
    /\ UNCHANGED << abiVars, storeVars, runVars, argVars, chainVars, pc,
                    attempt_number, scanVars, now, last_request_time,
                    last_call, acquired, trace, address >>

\* no get_logs call is running and no limiter was acquired
LogsIdle ==
    /\ contract_valid = TRUE
    /\ has_callback = FALSE
    /\ batch_size = 0
    /\ from_block = 0
    /\ to_block = 0
    /\ head = FloorBlock
    /\ mined = 0
    /\ pc = "idle"
    /\ attempt_number = 1
    /\ scan_from = 0
    /\ scan_to = 0
    /\ current_block = 0
    /\ end_block = 0
    /\ now = 1000
    /\ last_request_time = 0
    /\ last_call = 0
    /\ acquired = [alchemy |-> 0, etherscan |-> 0]
    /\ trace = << >>

Addresses == UNION { [1..n -> AddrChars] : n \in 0..MaxAddrLen }

InitContract ==
    /\ LogsIdle
    /\ AbiIdle
    /\ StoreIdle
    /\ RunIdle
    /\ address \in Addresses
    /\ stored_address = << >>
    /\ ctor = "new"

NextContract == ContractPostInit

SpecContract == InitContract /\ [][NextContract]_vars

----------------------------------------------------------------------------
(* FileManager.save_contract_data *)

MaxBatchLen == 2        \* records in the data of one call
MaxRecords == 2         \* records in the structured list of a key

\* values of record fields: s is str(value); JSON has no bytes type
IntValue == [t |-> "int", s |-> "1"]
BytesValue == [t |-> "bytes", s |-> "b'1'"]
Values == {IntValue, BytesValue}

\* str(value)
Str(v) == v.s

\* json.dump(..., default=str): a value JSON cannot represent is stored
\* as the string str(value)
JsonDefault(v) == IF v.t \in {"int", "str"} THEN v ELSE [t |-> "str", s |-> Str(v)]
JsonRecord(rec) == [k \in DOMAIN rec |-> JsonDefault(rec[k])]

\* the field names of the model in the order of sorted() on str
KeyOrder == << "a", "abi", "b", "blockNumber", "data", "logIndex", "topics",
               "transactionHash", "transactionIndex" >>
KeyRank(k) == CHOOSE i \in DOMAIN KeyOrder : KeyOrder[i] = k

Range(q) == { q[i] : i \in DOMAIN q }

\* sorted(fieldnames)
Sorted(S) == SelectSeq(KeyOrder, LAMBDA k : k \in S)

JsonAbsent == [st |-> "absent", recs |-> << >>]
JsonCorrupt == [st |-> "corrupt", recs |-> << >>]
CsvAbsent == [st |-> "absent", rows |-> << >>]

\* lines 53-62: the list read back on append; an absent or undecodable
\* file gives the empty list
ExistingJson(js, append) ==
    IF append /\ js.st = "list" THEN js.recs ELSE << >>

\* lines 64-67
SaveJson_prepend(js, data, append) ==
    [st |-> "list",
     recs |-> [i \in DOMAIN data |-> JsonRecord(data[i])]
              \o ExistingJson(js, append)]
SaveJson(js, data, append) ==
    [st |-> "list",
     recs |-> ExistingJson(js, append)
              \o [i \in DOMAIN data |-> JsonRecord(data[i])]]

\* lines 78-85: the header of the existing CSV file
ExistingFieldnames(cs, append) ==
    IF append /\ cs.st = "file" /\ cs.rows # << >>
    THEN Range(cs.rows[1])
    ELSE {}

\* _get_all_fieldnames, lines 22-27
GetAllFieldnames(data, existing) ==
    existing \cup UNION { DOMAIN data[i] : i \in DOMAIN data }

\* lines 24-26: `existing_fieldnames or set()` is the caller's set object
\* when that set is not empty, and update() then changes it in place
ExistingAfterUpdate(data, existing) ==
    IF existing # {} THEN GetAllFieldnames(data, existing) ELSE existing

\* line 91
NeedRewrite(data, append, existing) ==
    /\ append
    /\ ExistingAfterUpdate(data, existing) # {}
    /\ GetAllFieldnames(data, existing) # ExistingAfterUpdate(data, existing)

\* lines 107, 116: {k: str(row.get(k, '')) for k in all_fieldnames}
CsvRow(rec, fields) ==
    [j \in DOMAIN fields |->
        IF fields[j] \in DOMAIN rec THEN Str(rec[fields[j]]) ELSE ""]

\* lines 96-98, 105: a row read by csv.DictReader, written under fields
RewrittenRow(header, row, fields) ==
    [j \in DOMAIN fields |->
        IF \E i \in DOMAIN header : i <= Len(row) /\ header[i] = fields[j]
        THEN row[CHOOSE i \in DOMAIN header :
                    i <= Len(row) /\ header[i] = fields[j]]
        ELSE ""]

\* line 110
CsvMode_w(append, exists) == "w"
CsvMode(append, exists) == IF append /\ exists THEN "a" ELSE "w"

\* lines 76-116
SaveCsv(cs, data, append) ==
    LET existing == ExistingFieldnames(cs, append)
        fields == Sorted(GetAllFieldnames(data, existing))
        new_rows == [i \in DOMAIN data |-> CsvRow(data[i], fields)]
        mode == CsvMode(append, cs.st = "file")
    IN  IF NeedRewrite(data, append, existing)
        THEN LET old == SelectSeq(Tail(cs.rows), LAMBDA r : r # << >>)
             IN  [st |-> "file",
                  rows |-> << fields >>
                           \o [i \in DOMAIN old |->
                                 RewrittenRow(cs.rows[1], old[i], fields)]
                           \o new_rows]
        ELSE [st |-> "file",
              rows |-> (IF mode = "a" THEN cs.rows ELSE << >>)
                       \o (IF mode = "w" \/ ~append THEN << fields >> ELSE << >>)
                       \o new_rows]

\* lines 44-48: the directories after a call without data
EmptySaveDirs_ensure(c) == dirs \cup {c}
EmptySaveDirs(c) == dirs

\* lines 70-72: a failure of the JSON part is raised again
JsonFailureRaises_swallow == FALSE
JsonFailureRaises == TRUE

\* the key whose CSV writes csv_hist records
StoreKey == << << 1, 1 >>, "events" >>

\* save_contract_data(dao, contract c, data_type dt, data, append), where
\* jio and cio say whether the I/O on the JSON and on the CSV file works;
\* "torn" is a failure of json.dump after open(json_path, 'w') has
\* truncated the file (line 66), which leaves an undecodable file
SaveContractData(c, dt, data, append, jio, cio) ==
    LET k == << c, dt >>
        aborted == jio # "ok" /\ JsonFailureRaises
        cres == IF aborted THEN "-" ELSE cio
    IN  /\ save_seq' = 1 - save_seq
        /\ IF data = << >>
           THEN /\ dirs' = EmptySaveDirs(c)
                /\ store' = store
                /\ csv_hist' = csv_hist
                /\ last_write' = [data |-> data, append |-> append,
                                  json |-> "-", csv |-> "-", result |-> "ok"]
           ELSE /\ dirs' = dirs \cup {c}
                /\ store' = [store EXCEPT ![k] =
                     [json |-> IF jio = "ok"
                               THEN SaveJson(@.json, data, append)
                               ELSE IF jio = "torn" THEN JsonCorrupt
                               ELSE @.json,
                      csv |-> IF cres = "ok"
                              THEN SaveCsv(@.csv, data, append)
                              ELSE @.csv]]
                /\ csv_hist' =
                     IF k # StoreKey THEN csv_hist
                     ELSE IF cres # "ok"
                     THEN [csv_hist EXCEPT !.all_ok = FALSE]
                     ELSE [append_only |-> csv_hist.append_only /\ append,
                           recs |-> IF append THEN csv_hist.recs \o data
                                    ELSE data,
                           all_ok |-> csv_hist.all_ok /\ jio = "ok"]
                /\ last_write' = [data |-> data, append |-> append,
                                  json |-> IF jio = "ok" THEN "ok" ELSE "fail",
                                  csv |-> cres,
                                  result |-> IF jio # "ok" \/ cres = "fail"
                                             THEN "raised" ELSE "ok"]

\* the records a caller writes: field a holds an int, field b holds bytes
RecKeys == {"a", "b"}
ValueOf(k) == IF k = "a" THEN IntValue ELSE BytesValue
KeySets == { {"a"}, {"a", "b"} }
Records == { [k \in K |-> ValueOf(k)] : K \in KeySets }
Batches == UNION { [1..n -> Records] : n \in 0..MaxBatchLen }

\* a caller of save_contract_data on the key StoreKey
StoreSave ==
    /\ run_pc = "off"
    /\ DOMAIN store = {StoreKey}
    /\ \E data \in Batches, append \in BOOLEAN,
          jio \in {"ok", "fail", "torn"}, cio \in {"ok", "fail"} :
          /\ jio # "ok" => cio = "ok"
          /\ Len(ExistingJson(store[StoreKey].json, append)) + Len(data)
                <= MaxRecords
          /\ (IF append THEN Len(csv_hist.recs) ELSE 0) + Len(data)
                <= MaxRecords
          /\ SaveContractData(StoreKey[1], "events", data, append, jio, cio)
    /\ UNCHANGED << abiVars, ctrVars, runVars, argVars, chainVars, pc,
                    attempt_number, scanVars, now, last_request_time,
                    last_call, acquired, trace >>

InitStore ==
    /\ LogsIdle
    /\ AbiIdle
    /\ CtrIdle
    /\ RunIdle
    /\ \E js \in {JsonAbsent, JsonCorrupt} :
          /\ store = [k \in {StoreKey} |-> [json |-> js, csv |-> CsvAbsent]]
          /\ dirs = IF js = JsonAbsent THEN {} ELSE {StoreKey[1]}
          /\ csv_hist = [append_only |-> TRUE, recs |-> << >>,
                         all_ok |-> js = JsonAbsent]
    /\ last_write = NoWrite
    /\ save_seq = 0

NextStore == StoreSave

SpecStore == InitStore /\ [][NextStore]_vars

----------------------------------------------------------------------------
(* main and BlockchainExtractor *)

MaxDaos == 2            \* DAOs in the configuration
MaxContracts == 2       \* contracts of one DAO

RECURSIVE SumSeq(_)
SumSeq(q) == IF q = << >> THEN 0 ELSE Head(q) + SumSeq(Tail(q))

\* the configurations: the number of contracts of each DAO
Configs ==
    { cfg \in UNION { [1..n -> 0..MaxContracts] : n \in 0..MaxDaos } :
         SumSeq(cfg) <= MaxAbiCalls }

\* the contracts of a configuration, in the order of the configuration
RECURSIVE ContractsFrom(_, _, _)
ContractsFrom(cfg, d, c) ==
    IF d > Len(cfg) THEN << >>
    ELSE IF c > cfg[d] THEN ContractsFrom(cfg, d + 1, 1)
    ELSE << << d, c >> >> \o ContractsFrom(cfg, d, c + 1)
AllContracts(cfg) == ContractsFrom(cfg, 1, 1)

\* the contract being processed
ContractKey == << dao_idx, contract_idx >>

\* data=[{'abi': abi}]
AbiRecord == [abi |-> [t |-> "str", s |-> "abi"]]

\* a log as _format_log gives it to the callback
LogRecord == [blockNumber |-> IntValue, data |-> BytesValue]

\* `if not abi:`
NotAbi_never(r) == FALSE
NotAbi(r) == r # "abi"

\* process_dao, lines 27-29: `except Exception ... continue`
ContractErrorHandler_raise == "raise"
ContractErrorHandler == "continue"

\* the outcomes of the I/O on the JSON file and on the CSV file of a save
\* made by the run: both work, the JSON part fails, or the CSV part fails
RunIo == { << "ok", "ok" >>, << "fail", "ok" >>, << "ok", "fail" >> }

\* what the run did with a contract
Started(k) == [key |-> k, res |-> "-"]
Ended(log, r) == [log EXCEPT ![Len(log)].res = r]

\* the get_contract_abi call has returned to _get_and_save_abi
AbiReturned ==
    /\ abi_pc' = "idle"
    /\ abi_attempt' = 1
    /\ abi_trace' = << >>
    /\ abi_result' = "-"

\* the loop of process_dao takes the next contract
NextContractOfDao ==
    /\ dao_idx' = dao_idx
    /\ contract_idx' = contract_idx + 1
    /\ run_pc' = "loop"

\* main.py lines 29-39: the loops are over, main returns
RunMainReturn ==
    /\ run_pc = "loop"
    /\ dao_idx > Len(config)
    /\ run_pc' = "done"
    /\ UNCHANGED << config, dao_idx, contract_idx, run_log, abiVars, ctrVars,
                    storeVars, argVars, chainVars, pc, attempt_number,
                    scanVars, now, last_request_time, last_call, acquired,
                    trace >>

\* main.py lines 30-32, blockchain.py line 23: process_dao returns, the
\* loop of main takes the next DAO
RunNextDao ==
    /\ run_pc = "loop"
    /\ dao_idx <= Len(config)
    /\ contract_idx > config[dao_idx]
    /\ dao_idx' = dao_idx + 1
    /\ contract_idx' = 1
    /\ UNCHANGED << run_pc, config, run_log, abiVars, ctrVars,
                    storeVars, argVars, chainVars, pc, attempt_number,
                    scanVars, now, last_request_time, last_call, acquired,
                    trace >>

\* blockchain.py lines 23-26, 35-41: _process_contract makes the directory
\* and goes on to _get_and_save_abi
RunStartContract ==
    /\ run_pc = "loop"
    /\ dao_idx <= Len(config)
    /\ contract_idx <= config[dao_idx]
    /\ run_log' = Append(run_log, Started(ContractKey))
    /\ dirs' = dirs \cup {ContractKey}
    /\ run_pc' = "abi"
    /\ UNCHANGED << config, dao_idx, contract_idx, abiVars, ctrVars, store,
                    last_write, save_seq, csv_hist, argVars, chainVars, pc,
                    attempt_number, scanVars, now, last_request_time,
                    last_call, acquired, trace >>

\* blockchain.py lines 38, 27-29, main.py lines 33-35: os.makedirs raises,
\* the exception leaves _process_contract and reaches the handler of
\* process_dao
RunEnsureDirFails ==
    /\ run_pc = "loop"
    /\ dao_idx <= Len(config)
    /\ contract_idx <= config[dao_idx]
    /\ run_log' = Ended(Append(run_log, Started(ContractKey)), "OSError")
    /\ IF ContractErrorHandler = "continue"
       THEN NextContractOfDao
       ELSE /\ dao_idx' = dao_idx + 1
            /\ contract_idx' = 1
            /\ run_pc' = "loop"
    /\ UNCHANGED << config, abiVars, ctrVars, storeVars, argVars, chainVars,
                    pc, attempt_number, scanVars, now, last_request_time,
                    last_call, acquired, trace >>

\* blockchain.py line 56: self.etherscan.get_contract_abi(contract.address)
RunAbiCall ==
    /\ run_pc = "abi"
    /\ abi_pc = "idle"
    /\ AbiCall

\* blockchain.py lines 58-60, 74-76, 42-44: no ABI, the contract is left
RunAbiNone ==
    /\ run_pc = "abi"
    /\ abi_pc \in {"done", "raised"}
    /\ abi_pc = "raised" \/ NotAbi(abi_result)
    /\ run_log' = Ended(run_log, "None")
    /\ AbiReturned
    /\ NextContractOfDao
    /\ UNCHANGED << config, ctrVars, storeVars, argVars, chainVars,
                    pc, attempt_number, scanVars, now, last_request_time,
                    last_call, acquired, trace >>

\* blockchain.py lines 63-72, 47, 92-97: the ABI is saved and get_logs is
\* called; lines 74-76: a failure of the save counts as no ABI
RunSaveAbi ==
    /\ run_pc = "abi"
    /\ abi_pc = "done"
    /\ ~NotAbi(abi_result)
    /\ run_log' = Ended(run_log, abi_result)
    /\ AbiReturned
    /\ \E io \in RunIo :
          SaveContractData(ContractKey, "abi", << AbiRecord >>, FALSE,
                           io[1], io[2])
    /\ IF last_write'.result = "ok"
       THEN /\ run_pc' = "events"
            /\ UNCHANGED << dao_idx, contract_idx >>
            /\ pc' = "start"
            /\ contract_valid' \in BOOLEAN
            /\ from_block' = 0
            /\ has_callback' = TRUE
       ELSE /\ NextContractOfDao
            /\ UNCHANGED << pc, contract_valid, from_block, has_callback >>
    /\ UNCHANGED << config, ctrVars, to_block, batch_size, chainVars,
                    attempt_number, scanVars, now, last_request_time,
                    last_call, acquired, trace >>

\* blockchain.py lines 82-90 called at alchemy.py lines 113-119, 121-127:
\* process_batch saves the logs; when the save raises, the attempt fails
RunProcessBatch ==
    /\ run_pc = "events"
    /\ pc = "deliver"
    /\ \E io \in RunIo :
          SaveContractData(ContractKey, "events", << LogRecord >>, TRUE,
                           io[1], io[2])
    /\ IF last_write'.result = "ok"
       THEN /\ trace' = Append(trace, Event("deliver", current_block,
                                              end_block, "ok"))
            /\ current_block' = end_block + 1
            /\ pc' = "loop"
       ELSE /\ trace' = Append(trace, Event("deliver", current_block,
                                              end_block, "raise"))
            /\ current_block' = current_block
            /\ RetryOrRaise
    /\ UNCHANGED << runVars, abiVars, ctrVars, argVars, chainVars,
                    attempt_number, scan_from, scan_to, end_block, now,
                    last_request_time, last_call, acquired >>

\* blockchain.py lines 92-101: get_logs returned or raised RetryError, which
\* is logged; _process_contract returns
RunEventsReturn ==
    /\ run_pc = "events"
    /\ pc \in {"returned", "raised"}
    /\ pc' = "idle"
    /\ attempt_number' = 1
    /\ contract_valid' = TRUE
    /\ has_callback' = FALSE
    /\ scan_from' = 0
    /\ scan_to' = 0
    /\ current_block' = 0
    /\ end_block' = 0
    /\ trace' = << >>
    /\ NextContractOfDao
    /\ UNCHANGED << config, run_log, abiVars, ctrVars, storeVars, from_block,
                    to_block, batch_size, chainVars, now, last_request_time,
                    last_call, acquired >>

\* the files of every contract of the configuration
RunKeys(cfg) ==
    { << k, dt >> : k \in Range(AllContracts(cfg)), dt \in {"abi", "events"} }

InitRun ==
    /\ contract_valid = TRUE
    /\ has_callback = FALSE
    /\ batch_size = 0
    /\ from_block = 0
    /\ to_block = 0
    /\ head = FloorBlock + 1
    /\ mined = 0
    /\ pc = "idle"
    /\ attempt_number = 1
    /\ scan_from = 0
    /\ scan_to = 0
    /\ current_block = 0
    /\ end_block = 0
    /\ now = 1000
    /\ last_request_time = 0
    /\ last_call = 0
    /\ acquired = [alchemy |-> 0, etherscan |-> 0]
    /\ trace = << >>
    /\ AbiIdle
    /\ CtrIdle
    /\ config \in Configs
    /\ run_pc = "loop"
    /\ dao_idx = 1
    /\ contract_idx = 1
    /\ run_log = << >>
    /\ dirs = {}
    /\ store = [k \in RunKeys(config) |->
                  [json |-> JsonAbsent, csv |-> CsvAbsent]]
    /\ last_write = NoWrite
    /\ save_seq = 0
    /\ csv_hist = [append_only |-> TRUE, recs |-> << >>, all_ok |-> TRUE]

\* the steps of the run; the chain head stays where it is during the run
NextRun ==
    \/ RunMainReturn
    \/ RunNextDao
    \/ RunStartContract
    \/ RunEnsureDirFails
    \/ RunAbiCall
    \/ AbiVerified
    \/ AbiNotVerified
    \/ AbiRateLimited
    \/ AbiTransportError
    \/ AbiBadAnswer
    \/ AbiBackoff
    \/ RunAbiNone
    \/ RunSaveAbi
    \/ GetLogsInvalidAddress
    \/ GetLogsStart
    \/ FetchFail
    \/ FetchEmpty
    \/ FetchLogs
    \/ RunProcessBatch
    \/ LoopExit
    \/ Backoff
    \/ RunEventsReturn

SpecRun == InitRun /\ [][NextRun]_vars

\* a running Python program takes its next step
SpecRunFair == SpecRun /\ WF_vars(NextRun)

----------------------------------------------------------------------------
(* What the call did *)

Requests == { i \in DOMAIN trace : trace[i].kind = "request" }
Delivers == { i \in DOMAIN trace : trace[i].kind = "deliver" }
HeadReads == { i \in DOMAIN trace : trace[i].kind = "head" }
Waits == { i \in DOMAIN trace : trace[i].kind = "wait" }

RequestsAt(s) == { i \in Requests : trace[i].lo = s }
NoCallbackRaise == \A i \in Delivers : trace[i].res = "ok"
FailedAlways(s) ==
    /\ RequestsAt(s) # {}
    /\ \A i \in RequestsAt(s) : trace[i].res = "fail"

----------------------------------------------------------------------------
(* Claims *)

\* C1: when a scan over [from, to] with from <= to completes without a fetch
\* failure, the sub-ranges it requested are ascending, pairwise disjoint and
\* every block of [from, to], the block to included, lies in exactly one.
C1_ExactCover ==
    (pc = "returned" /\ scan_from <= scan_to) =>
        LET R == { i \in Requests : trace[i].att = attempt_number }
        IN  /\ \A i \in R : scan_from <= trace[i].lo /\ trace[i].hi <= scan_to
            /\ \A i, j \in R : i < j => trace[i].hi < trace[j].lo
            /\ \A blk \in scan_from..scan_to :
                  Cardinality({ i \in R : trace[i].lo <= blk
                                          /\ blk <= trace[i].hi }) = 1

\* C2: over one whole call whose only failures are fetch failures, the batch
\* callback is invoked at most once per sub-range and in ascending block
\* order.
C2_DeliveredOnce ==
    NoCallbackRaise =>
        \A i, j \in Delivers : i < j => trace[i].lo < trace[j].lo

\* C3: a sub-range that was fetched successfully is never requested again
\* in the same call: a retry re-requests the failed sub-range only.
C3_RetryPerSubRange ==
    NoCallbackRaise =>
        \A i, j \in Requests :
            (i < j /\ trace[i].res # "fail") => trace[j].lo # trace[i].lo

\* C4: every request spans at most batch_size blocks, both endpoints counted.
C4_RequestWithinBatch ==
    \A i \in Requests :
        trace[i].hi - trace[i].lo + 1 <= EffectiveBatch(batch_size)

\* C5: a sub-range is requested at most 3 times in a call; while a sub-range
\* has failed at every request made for it, nothing beyond it is requested or
\* delivered and the call does not return normally; when its request fails in
\* the last attempt the call ends with an error.
C5_ExhaustedFetchIsFatal ==
    \A i \in Requests :
        LET s == trace[i].lo
        IN  /\ Cardinality(RequestsAt(s)) <= 3
            /\ FailedAlways(s) =>
                  /\ \A j \in Requests \cup Delivers : trace[j].lo <= s
                  /\ pc # "returned"
                  /\ (trace[i].att = 3 /\ trace[i].res = "fail") => pc = "raised"

C5_Witness ==
    /\ pc = "raised"
    /\ \E i \in Requests :
          /\ trace[i].att = 3
          /\ trace[i].lo > scan_from
          /\ trace[i].hi + 1 < scan_to
          /\ FailedAlways(trace[i].lo)
          /\ Cardinality(RequestsAt(trace[i].lo)) = 3

\* C6: with an invalid contract address the call is attempted exactly once,
\* with no backoff wait, no retry and no request to the log provider.
C6_InvalidAddressNotRetried ==
    ~contract_valid =>
        /\ attempt_number = 1
        /\ pc # "backoff"
        /\ Waits = {}
        /\ Requests = {}

\* C7: called with from_block = 0, every request starts at or above the
\* provider floor block and the first request of every attempt starts at it.
C7_FloorSubstituted ==
    from_block = 0 =>
        \A i \in Requests :
            /\ trace[i].lo >= FloorBlock
            /\ (\A j \in Requests : j < i => trace[j].att # trace[i].att)
                  => trace[i].lo = FloorBlock

C7_Witness ==
    /\ from_block = 0
    /\ \E i \in Requests : trace[i].att >= 2

\* C8: with to_block omitted the chain head is read at most once per call,
\* and every request of the call is bounded by the value read first.
C8_HeadReadOnce ==
    to_block = 0 =>
        /\ Cardinality(HeadReads) <= 1
        /\ \A h \in HeadReads : \A i \in Requests :
              (h < i /\ \A g \in HeadReads : h <= g) => trace[i].hi <= trace[h].hi

\* C9: with a callback, when a sub-range is requested every non-empty result
\* of the earlier sub-ranges of the same scan has already been passed to it.
C9_DeliveredBeforeNextRequest ==
    has_callback =>
        \A i, j \in Requests :
            (i < j /\ trace[i].att = trace[j].att /\ trace[i].res = "logs") =>
                \E k \in Delivers :
                    /\ i < k /\ k < j
                    /\ trace[k].att = trace[i].att
                    /\ trace[k].lo = trace[i].lo
                    /\ trace[k].hi = trace[i].hi

C9_Witness ==
    /\ has_callback
    /\ \E i, j \in Requests :
          i < j /\ trace[i].att = trace[j].att /\ trace[i].res = "logs"

\* C10: two consecutive acquisitions of one limiter return at least its
\* minimum interval apart (100 ms for _throttle, 200 ms for rate_limit), and
\* an acquisition of one limiter leaves the state of the other unchanged.
C10_LimiterSpacing ==
    [][ /\ (last_request_time' # last_request_time \/ acquired'.alchemy # acquired.alchemy) =>
              /\ last_request_time' - last_request_time >= 100
              /\ last_call' = last_call
        /\ (last_call' # last_call \/ acquired'.etherscan # acquired.etherscan) =>
              /\ last_call' - last_call >= 200
              /\ last_request_time' = last_request_time ]_vars

C10_Witness ==
    /\ acquired.alchemy >= 2
    /\ acquired.etherscan >= 2
    /\ last_request_time # last_call

\* the answers after which an attempt of get_contract_abi raises
AbiFailures == {"ratelimit", "transport", "badanswer"}

\* C11: a get_contract_abi call sends at most 3 requests and never raises;
\* when every attempt failed with a rate-limit answer or a transport error
\* the call returns None.
C11_AbiExhaustedReturnsNone ==
    /\ Len(abi_trace) <= 3
    /\ abi_pc # "raised"
    /\ abi_result \in {"-", "abi", "None"}
    /\ (abi_pc = "done" /\ \A i \in DOMAIN abi_trace : abi_trace[i] \in AbiFailures)
          => abi_result = "None"

C11_Witness ==
    /\ abi_pc = "done"
    /\ Len(abi_trace) = 3
    /\ \A i \in DOMAIN abi_trace : abi_trace[i] \in {"ratelimit", "transport"}
    /\ abi_result = "None"

\* C12: a 'not verified / no data' answer ends the call with None and is
\* never followed by another request, so when it is the first answer the
\* call made exactly one request; a rate-limit answer to the first or the
\* second request is followed by a retry.
C12_NotVerifiedNotRetried ==
    \A i \in DOMAIN abi_trace :
        /\ abi_trace[i] = "notverified" =>
              /\ i = Len(abi_trace)
              /\ abi_pc = "done"
              /\ abi_result = "None"
        /\ (abi_trace[i] = "ratelimit" /\ i < 3) =>
              \/ i < Len(abi_trace)
              \/ abi_pc \in {"backoff", "request"}

C12_Witness ==
    /\ abi_pc = "done"
    /\ abi_trace = << "notverified" >>
    /\ abi_result = "None"

\* C20: the construction of a Contract fails for every address that does not
\* begin with the two characters '0x', one beginning with '0X' included, and
\* the address stored by a successful construction is entirely lowercase.
C20_PrefixRequired ==
    ctor \notin {"idle", "new"} =>
        /\ ~(Len(address) >= 2 /\ address[1] = "0" /\ address[2] = "x")
              => ctor = "ValueError"
        /\ ctor = "ok" =>
              \A i \in DOMAIN stored_address : stored_address[i] \notin {"X", "A"}

\* C13: after append writes only, starting from an absent CSV file, the
\* first row of the file is the sorted union of the keys of all records
\* written so far, and every data row has the cells of its record under
\* that header, with an empty cell for each key the record does not have.
C13_HeaderIsSortedUnion ==
    (csv_hist.append_only /\ csv_hist.recs # << >>) =>
        LET cs == store[StoreKey].csv
            recs == csv_hist.recs
            header == Sorted(UNION { DOMAIN recs[i] : i \in DOMAIN recs })
        IN  /\ cs.st = "file"
            /\ Len(cs.rows) = 1 + Len(recs)
            /\ cs.rows[1] = header
            /\ \A i \in DOMAIN recs : cs.rows[i + 1] = CsvRow(recs[i], header)

\* C14: an append whose records have only keys of the existing header
\* keeps the header row and every stored data row, and adds one row per
\* record after them, aligned to the existing header.
C14_AppendKeepsRows ==
    [][ LET cs == store[StoreKey].csv
            d == last_write'.data
        IN  ( /\ save_seq' # save_seq
              /\ last_write'.append
              /\ last_write'.csv = "ok"
              /\ cs.st = "file"
              /\ cs.rows # << >>
              /\ \A i \in DOMAIN d : DOMAIN d[i] \subseteq Range(cs.rows[1]) )
            => store'[StoreKey].csv =
                  [st |-> "file",
                   rows |-> cs.rows
                            \o [i \in DOMAIN d |-> CsvRow(d[i], cs.rows[1])]]
      ]_vars

C14_Witness ==
    /\ DOMAIN store = {StoreKey}
    /\ last_write.append
    /\ last_write.csv = "ok"
    /\ last_write.data = << [a |-> IntValue] >>
    /\ LET rows == store[StoreKey].csv.rows
       IN  /\ Len(rows) = 3
           /\ rows[1] = << "a", "b" >>
           /\ rows[2] = << "1", "b'1'" >>
           /\ rows[3] = << "1", "" >>

\* C15 as stated: a failure of the JSON write does not keep the call from
\* attempting the CSV write, a failure of the CSV write comes after an
\* attempt of the JSON write, and each failure is raised to the caller.
C15_BothViewsAttempted ==
    /\ last_write.json = "fail" =>
          last_write.csv # "-" /\ last_write.result = "raised"
    /\ last_write.csv = "fail" =>
          last_write.json # "-" /\ last_write.result = "raised"

\* C15 amended: a call whose JSON write fails does not attempt the CSV write
\* and leaves the CSV file as it was; a call whose CSV write fails has made
\* the JSON write; each failure is raised to the caller.
C15_JsonFailureAborts ==
    [][ save_seq' # save_seq =>
          /\ last_write'.json = "fail" =>
                /\ last_write'.csv = "-"
                /\ store'[StoreKey].csv = store[StoreKey].csv
                /\ last_write'.result = "raised"
          /\ last_write'.csv = "fail" =>
                /\ last_write'.json = "ok"
                /\ store'[StoreKey].json =
                      SaveJson(store[StoreKey].json, last_write'.data,
                               last_write'.append)
                /\ last_write'.result = "raised"
      ]_vars

C15_Witness ==
    /\ last_write.json = "fail"
    /\ last_write.csv = "-"
    /\ last_write.result = "raised"
    /\ DOMAIN store = {StoreKey}
    /\ store[StoreKey].csv.st = "file"

\* C16: a successful JSON write in append mode stores the list read back
\* (empty for an absent or undecodable file) followed by the new records in
\* their order; in overwrite mode it stores the new records alone.  Each
\* record is stored as json.dump encodes it.
C16_JsonConcatenates ==
    [][ LET js == store[StoreKey].json
            d == last_write'.data
            encoded == [i \in DOMAIN d |-> JsonRecord(d[i])]
        IN  (save_seq' # save_seq /\ last_write'.json = "ok") =>
               store'[StoreKey].json =
                  [st |-> "list",
                   recs |-> (IF last_write'.append /\ js.st = "list"
                             THEN js.recs ELSE << >>) \o encoded]
      ]_vars

C16_Witness ==
    /\ DOMAIN store = {StoreKey}
    /\ last_write.append
    /\ last_write.json = "ok"
    /\ last_write.data = << [a |-> IntValue, b |-> BytesValue] >>
    /\ store[StoreKey].json.recs =
          << [a |-> IntValue],
             [a |-> IntValue, b |-> [t |-> "str", s |-> "b'1'"]] >>

\* C17: a call with an empty record list creates no directory, changes no
\* file and returns without raising.
C17_EmptySaveIsNoOp ==
    [][ (save_seq' # save_seq /\ last_write'.data = << >>) =>
          /\ dirs' = dirs
          /\ store' = store
          /\ last_write'.result = "ok"
      ]_vars

C17_Witness ==
    /\ save_seq = 1
    /\ last_write.data = << >>
    /\ last_write.append
    /\ last_write.result = "ok"
    /\ dirs = {}

\* C18: a contract for which get_contract_abi gave None has no 'abi' and no
\* 'events' file, no get_logs call is made for it, and when its DAO has a
\* further contract, that contract is the next one the run takes.
C18_AbiNoneSkipsEvents ==
    \A i \in DOMAIN run_log :
        run_log[i].res = "None" =>
            LET k == run_log[i].key
            IN  /\ store[<< k, "abi" >>] =
                      [json |-> JsonAbsent, csv |-> CsvAbsent]
                /\ store[<< k, "events" >>] =
                      [json |-> JsonAbsent, csv |-> CsvAbsent]
                /\ i = Len(run_log) =>
                      /\ pc = "idle"
                      /\ trace = << >>
                      /\ run_pc \in {"loop", "done"}
                /\ k[2] < config[k[1]] =>
                      IF i < Len(run_log)
                      THEN run_log[i + 1].key = << k[1], k[2] + 1 >>
                      ELSE /\ run_pc = "loop"
                           /\ dao_idx = k[1]
                           /\ contract_idx = k[2] + 1

C18_Witness ==
    /\ Len(run_log) = 2
    /\ run_log[1] = [key |-> << 1, 1 >>, res |-> "None"]
    /\ run_log[2] = [key |-> << 1, 2 >>, res |-> "abi"]
    /\ store[<< << 1, 2 >>, "events" >>].json.st = "list"

\* the contracts the run has taken, in order
StartedKeys == [i \in DOMAIN run_log |-> run_log[i].key]

\* C19: whatever fails while contracts are processed, the run takes the
\* contracts in the order of the configuration, and main eventually returns
\* having taken every contract of every DAO.
C19_FailureIsolation ==
    /\ [](/\ Len(StartedKeys) <= Len(AllContracts(config))
          /\ StartedKeys = SubSeq(AllContracts(config), 1, Len(StartedKeys)))
    /\ <>(run_pc = "done" /\ StartedKeys = AllContracts(config))

C19_Witness ==
    /\ run_pc = "done"
    /\ Len(run_log) = 2
    /\ run_log[1].res = "OSError"
    /\ run_log[2].res = "abi"
    /\ last_write.result = "raised"
    /\ acquired.alchemy = 3

\* C21: a raise of the batch callback is not handled as a failed fetch: no
\* wait and no log request follows it in the call, and no sub-range that
\* was delivered before it is delivered again after it.
C21_CallbackFailureNotRetried ==
    \A i \in Delivers :
        trace[i].res = "raise" =>
            /\ \A j \in Waits \cup Requests : j < i
            /\ \A j, k \in Delivers :
                  (k < i /\ i < j /\ trace[k].res = "ok")
                      => trace[j].lo # trace[k].lo

Throttles == { i \in DOMAIN trace : trace[i].kind = "throttle" }

\* C23: every log request is preceded by an acquisition of the limiter made
\* after the request before it, so a call has at least as many acquisitions
\* as requests.
C23_ThrottleBeforeEachRequest ==
    /\ \A i \in Requests :
          \E j \in Throttles :
              /\ j < i
              /\ \A k \in Requests : ~(j < k /\ k < i)
    /\ Cardinality(Throttles) >= Cardinality(Requests)

\* C22: from an empty store, as long as every save of the key worked, the
\* CSV file has one data row for each record of the JSON list, and row i is
\* the projection of record i on the header, its cells made strings.
C22_ViewsSynchronized ==
    csv_hist.all_ok =>
        LET f == store[StoreKey]
        IN  \/ f.json = JsonAbsent /\ f.csv = CsvAbsent
            \/ /\ f.json.st = "list"
               /\ f.csv.st = "file"
               /\ Len(f.csv.rows) = 1 + Len(f.json.recs)
               /\ \A i \in 1..Len(f.json.recs) :
                     f.csv.rows[i + 1] = CsvRow(f.json.recs[i], f.csv.rows[1])

====
